---- MODULE Spec2Model ----
(***************************************************************************)
(* Model of the fire-alert core of nvpcode/Demo_Alert_Fire:                *)
(*   - compute_iou and IoUTracker      (src/src/tracking/iou_tracker.py)   *)
(*   - FireEventManager                (src/src/events/fire_event_manager.py) *)
(*                                                                         *)
(* Numbers.  compute_iou returns inter / (union + 1e-6).  The boxes of the *)
(* model have small integer coordinates, so an overlap value is kept as    *)
(* the exact pair <<inter, union>> standing for inter / (union + 1e-6),    *)
(* and every comparison the code makes (argmax, "< iou_threshold") is      *)
(* decided exactly, with 1e-6 smaller than any difference of the integer   *)
(* cross products.  <<0, 1>> is the 0.0 the function returns early, and    *)
(* <<-1, 1>> the -1 the greedy loop writes into used matrix entries.       *)
(* Thresholds are exact fractions <<p, q>>.  Times are whole seconds.      *)
(***************************************************************************)
EXTENDS Integers, Sequences, FiniteSets, TLC

VARIABLES
    \* IoUTracker fields (iou_tracker.py:56-60)
    iou_threshold,      \* <<p, q>>, the fraction p/q
    max_lost,
    tracks,             \* the Track Table: id -> [bbox, score, class_name, lost]
    next_id,
    \* the last IoUTracker.update call: its argument, what it returned and did
    given,              \* the detections it was given
    outputs,            \* the returned list
    matched,            \* ids of the tracks the greedy loop updated in the last call
    \* observations over the tracker's whole run
    issued,             \* every id _create_track has handed out, in order
    misses,             \* id -> consecutive updates since its last match or creation (capped)
    feed,               \* <<"fresh">>, <<"same", d>> (every call so far got <<d>>), <<"mixed">>
    \* a call of compute_iou on its own
    iou_call,           \* [boxA, boxB, result, made]
    \* the "while True" loop of IoUTracker.update, in the runs that look inside
    \* a call: [state |-> "idle"] when no call was looked into,
    \* [state |-> "running", detections, track_ids, g] between two passes (g holds
    \* the loop's variables), [state |-> "done", matrix, pairs, iterations] once
    \* the call has returned (matrix: iou_matrix as first filled, <<>> if the call
    \* built none; pairs: the <<t_idx, d_idx>> assigned, in order)
    loop

tracker_vars ==
    <<iou_threshold, max_lost, tracks, next_id, given, outputs, matched, issued, misses, feed,
      iou_call, loop>>

VARIABLES
    \* FireEventManager fields (fire_event_manager.py:36-43)
    min_frames,
    cooldown_seconds,
    track_frames_count,     \* dict: track id -> frames counted
    track_last_alert_ts,    \* dict: track id -> time of the last alert
    \* the last FireEventManager.update call: its arguments and what it did
    call,                   \* [tracks, now_ts, confirmed, saved, callbacks, fault, raised]
    \* observations over the engine's whole run
    updates,                \* number of update calls so far (the next frame_idx)
    last_confirmed_at,      \* track id -> now_ts of the last call that confirmed it
    times_confirmed,        \* track id -> number of calls that confirmed it
    undelivered,            \* ids whose last confirmation was in a call that raised
    streak                  \* track id -> latest calls in a row that reported it with lost = 0

engine_vars == <<min_frames, cooldown_seconds, track_frames_count, track_last_alert_ts,
                 call, updates, last_confirmed_at, times_confirmed, undelivered, streak>>

VARIABLES
    \* TelegramNotifier fields (telegram_notifier.py:20-28)
    bot_token,
    chat_id,
    enabled,
    bot,                    \* "None" or "Bot"
    event_loop,             \* self.loop: "None" or "loop"
    loop_thread,            \* self.loop_thread: "None", or where run_event_loop stands:
                            \* "started" (before line 45), "loop_set" (before line 47),
                            \* "running" (inside run_forever)
    \* the thread that constructs the notifier and then sends alerts
    ctor,                   \* "none" (no notifier), "entry", "sleeping" (line 54),
                            \* "returned", "waiting" (send_fire_alert at line 98)
    sent_log                \* what each send_fire_alert call did, in order

notifier_vars == <<bot_token, chat_id, enabled, bot, event_loop, loop_thread, ctor, sent_log>>

vars == <<tracker_vars, engine_vars, notifier_vars>>

----------------------------------------------------------------------------
(* Bounds of the model *)

MaxId == 2              \* no update is taken that would issue an id above MaxId
MaxDets == 2            \* longest detection list of one frame
MaxLostBound == 1       \* max_lost is drawn from 0..MaxLostBound
MaxUpdates == 2         \* FireEventManager.update calls in one run
MaxTime == 2            \* time.time() reads 0..MaxTime
MaxMinFrames == 2       \* min_frames is drawn from 1..MaxMinFrames
MaxCooldown == 1        \* cooldown_seconds is drawn from 0..MaxCooldown
MaxCoord == 2           \* boxes given to compute_iou on its own have coordinates in 0..MaxCoord
MaxSends == 4           \* send_fire_alert calls in one run

(* Inputs *)

BoxA == <<0, 0, 2, 2>>
BoxB == <<0, 0, 2, 1>>      \* inside BoxA: overlap 2 / (4 + 1e-6)
BoxD == <<4, 4, 5, 5>>      \* disjoint from both
BoxC == <<0, 1, 2, 2>>      \* inside BoxA like BoxB, disjoint from BoxB

\* Detections of the model: valid boxes (x1<x2, y1<y2), scores in tenths.
DetSet ==
    { [bbox |-> BoxA, score |-> 9, class_name |-> "fire"],
      [bbox |-> BoxB, score |-> 5, class_name |-> "smoke"],
      [bbox |-> BoxD, score |-> 7, class_name |-> "fire"] }

\* iou_threshold values: 0, 0.3 (the default), 1
ThresholdSet == { <<0, 1>>, <<3, 10>>, <<1, 1>> }

\* Track ids the engine is shown when it is run on its own.
TrackIdSet == {1, 2}

DetLists == UNION { [1..n -> DetSet] : n \in 0..MaxDets }

----------------------------------------------------------------------------
(* compute_iou *)

Max2(a, b) == IF a >= b THEN a ELSE b
Min2(a, b) == IF a <= b THEN a ELSE b

NegOne == <<-1, 1>>
Zero == <<0, 1>>

\* compute_iou measuring the union as twice the area of boxA
compute_iou_union_from_boxA(boxA, boxB) ==
    LET xA == Max2(boxA[1], boxB[1])
        yA == Max2(boxA[2], boxB[2])
        xB == Min2(boxA[3], boxB[3])
        yB == Min2(boxA[4], boxB[4])
        inter_w == Max2(0, xB - xA)
        inter_h == Max2(0, yB - yA)
        inter_area == inter_w * inter_h
        boxA_area == (boxA[3] - boxA[1]) * (boxA[4] - boxA[2])
    IN  IF inter_area <= 0 THEN Zero
        ELSE <<inter_area, boxA_area + boxA_area - inter_area>>

\* compute_iou without "max(0, ...)" on the intersection width and height
compute_iou_unclamped(boxA, boxB) ==
    LET xA == Max2(boxA[1], boxB[1])
        yA == Max2(boxA[2], boxB[2])
        xB == Min2(boxA[3], boxB[3])
        yB == Min2(boxA[4], boxB[4])
        inter_w == xB - xA
        inter_h == yB - yA
        inter_area == inter_w * inter_h
        boxA_area == (boxA[3] - boxA[1]) * (boxA[4] - boxA[2])
        boxB_area == (boxB[3] - boxB[1]) * (boxB[4] - boxB[2])
    IN  IF inter_area <= 0 THEN Zero
        ELSE <<inter_area, boxA_area + boxB_area - inter_area>>

compute_iou(boxA, boxB) ==
    LET xA == Max2(boxA[1], boxB[1])
        yA == Max2(boxA[2], boxB[2])
        xB == Min2(boxA[3], boxB[3])
        yB == Min2(boxA[4], boxB[4])
        inter_w == Max2(0, xB - xA)
        inter_h == Max2(0, yB - yA)
        inter_area == inter_w * inter_h
        boxA_area == (boxA[3] - boxA[1]) * (boxA[4] - boxA[2])
        boxB_area == (boxB[3] - boxB[1]) * (boxB[4] - boxB[2])
    IN  IF inter_area <= 0 THEN Zero
        ELSE <<inter_area, boxA_area + boxB_area - inter_area>>

\* a < b for two overlap values (union > 0 whenever inter > 0)
IouLess(a, b) ==
    IF a[1] <= 0 \/ b[1] <= 0
    THEN IF a[1] <= 0 /\ b[1] <= 0 THEN a[1] < b[1] ELSE a[1] <= 0
    ELSE LET k == a[1] * b[2] - b[1] * a[2]
         IN  k < 0 \/ (k = 0 /\ a[1] < b[1])

\* v < p/q for an overlap value v and a threshold <<p, q>>, q > 0
BelowThreshold(v, thr) ==
    IF v[1] <= 0 THEN v[1] * thr[2] < thr[1]
    ELSE LET k == v[1] * thr[2] - thr[1] * v[2]
         IN  IF thr[1] > 0 THEN k <= 0 ELSE k < 0

----------------------------------------------------------------------------
(* IoUTracker *)

\* The value of a one-element set.  Only({ F(x) : x \in {e} }) is
\* "LET x == e IN F(x)" with e evaluated once.
Only(S) == CHOOSE x \in S : TRUE

\* The function f itself, held as a table instead of a rule that is
\* re-evaluated at every lookup.
Explicit(f) == f @@ <<>>

\* The keys of a dict in iteration order.  Python dicts keep insertion order;
\* ids are inserted in increasing order and never re-inserted, so the order
\* is ascending id.
RECURSIVE KeysInOrder(_)
KeysInOrder(S) ==
    IF S = {} THEN <<>>
    ELSE Only({ Only({ <<m>> \o KeysInOrder(rest) : rest \in {S \ {m}} }) :
                m \in {CHOOSE x \in S : \A y \in S : x <= y} })

Track(track_id, bbox, score, class_name) ==
    [bbox |-> bbox, score |-> score, class_name |-> class_name, lost |-> 0]

\* _create_track without "self.next_id += 1"
_create_track_no_increment(st, det) ==
    [tracks  |-> (st.next_id :> Track(st.next_id, det.bbox, det.score, det.class_name))
                 @@ st.tracks,
     next_id |-> st.next_id,
     created |-> Append(st.created, st.next_id)]

\* self.tracks[self.next_id] = Track(...); self.next_id += 1
\* on st = [tracks, next_id, created]; created lists the ids given to Track(...)
_create_track(st, det) ==
    [tracks  |-> (st.next_id :> Track(st.next_id, det.bbox, det.score, det.class_name))
                 @@ st.tracks,
     next_id |-> st.next_id + 1,
     created |-> Append(st.created, st.next_id)]

\* for j, det in enumerate(detections): if j in keep: self._create_track(det)
RECURSIVE CreateAll(_, _, _, _)
CreateAll(st, detections, keep, j) ==
    IF j > Len(detections) THEN st
    ELSE Only({ CreateAll(s2, detections, keep, j + 1) :
                s2 \in {IF j \in keep THEN _create_track(st, detections[j]) ELSE st} })

\* iou_matrix[i, j] = compute_iou(track_bboxes[i], det_bboxes[j])
IouMatrix(tbl, track_ids, detections) ==
    Explicit([idx \in (1..Len(track_ids)) \X (1..Len(detections)) |->
                compute_iou(tbl[track_ids[idx[1]]].bbox, detections[idx[2]].bbox)])

\* np.unravel_index(np.argmax(iou_matrix), iou_matrix.shape): the first
\* maximal entry in row-major order
RowMajorBefore(a, b) == a[1] < b[1] \/ (a[1] = b[1] /\ a[2] < b[2])

\* the first entry in row-major order that is not -1, whatever its value
ArgMax_first_valid(M) ==
    IF \A o \in DOMAIN M : M[o] = NegOne
    THEN CHOOSE idx \in DOMAIN M : \A o \in DOMAIN M : idx = o \/ RowMajorBefore(idx, o)
    ELSE CHOOSE idx \in DOMAIN M :
            /\ M[idx] # NegOne
            /\ \A o \in DOMAIN M : RowMajorBefore(o, idx) => M[o] = NegOne

\* the first maximal entry in column-major order
ArgMax_column_major(M) ==
    CHOOSE idx \in DOMAIN M :
        /\ \A o \in DOMAIN M : ~IouLess(M[idx], M[o])
        /\ \A o \in DOMAIN M :
                RowMajorBefore(<<o[2], o[1]>>, <<idx[2], idx[1]>>) => IouLess(M[o], M[idx])

\* the last maximal entry in row-major order
ArgMax_last_maximal(M) ==
    CHOOSE idx \in DOMAIN M :
        /\ \A o \in DOMAIN M : ~IouLess(M[idx], M[o])
        /\ \A o \in DOMAIN M : RowMajorBefore(idx, o) => IouLess(M[o], M[idx])

ArgMax(M) ==
    CHOOSE idx \in DOMAIN M :
        /\ \A o \in DOMAIN M : ~IouLess(M[idx], M[o])
        /\ \A o \in DOMAIN M : RowMajorBefore(o, idx) => IouLess(M[o], M[idx])

\* the loop body without "used_dets.add(d_idx)"
GreedyAt_no_used_dets(g, thr, track_ids, detections, max_idx) ==
    IF BelowThreshold(g.M[max_idx], thr)
    THEN [g EXCEPT !.done = TRUE, !.iterations = @ + 1]
    ELSE IF max_idx[1] \in g.used_tracks \/ max_idx[2] \in g.used_dets
    THEN [g EXCEPT !.M[max_idx] = NegOne, !.iterations = @ + 1]
    ELSE [g EXCEPT !.tracks[track_ids[max_idx[1]]] =
                        [bbox |-> detections[max_idx[2]].bbox,
                         score |-> detections[max_idx[2]].score,
                         class_name |-> detections[max_idx[2]].class_name,
                         lost |-> 0],
                   !.used_tracks = @ \cup {max_idx[1]},
                   !.pairs = Append(@, max_idx),
                   !.M[max_idx] = NegOne, !.iterations = @ + 1]

\* the loop body without "tr.score = det["score"]"
GreedyAt_keeps_score(g, thr, track_ids, detections, max_idx) ==
    IF BelowThreshold(g.M[max_idx], thr)
    THEN [g EXCEPT !.done = TRUE, !.iterations = @ + 1]
    ELSE IF max_idx[1] \in g.used_tracks \/ max_idx[2] \in g.used_dets
    THEN [g EXCEPT !.M[max_idx] = NegOne, !.iterations = @ + 1]
    ELSE [g EXCEPT !.tracks[track_ids[max_idx[1]]] =
                        [bbox |-> detections[max_idx[2]].bbox,
                         score |-> g.tracks[track_ids[max_idx[1]]].score,
                         class_name |-> detections[max_idx[2]].class_name,
                         lost |-> 0],
                   !.used_tracks = @ \cup {max_idx[1]},
                   !.used_dets = @ \cup {max_idx[2]},
                   !.pairs = Append(@, max_idx),
                   !.M[max_idx] = NegOne, !.iterations = @ + 1]

\* the loop body with "break" in place of "continue" at an already-used entry
GreedyAt_stop_on_used(g, thr, track_ids, detections, max_idx) ==
    IF BelowThreshold(g.M[max_idx], thr)
    THEN [g EXCEPT !.done = TRUE, !.iterations = @ + 1]
    ELSE IF max_idx[1] \in g.used_tracks \/ max_idx[2] \in g.used_dets
    THEN [g EXCEPT !.M[max_idx] = NegOne, !.done = TRUE, !.iterations = @ + 1]
    ELSE [g EXCEPT !.tracks[track_ids[max_idx[1]]] =
                        [bbox |-> detections[max_idx[2]].bbox,
                         score |-> detections[max_idx[2]].score,
                         class_name |-> detections[max_idx[2]].class_name,
                         lost |-> 0],
                   !.used_tracks = @ \cup {max_idx[1]},
                   !.used_dets = @ \cup {max_idx[2]},
                   !.pairs = Append(@, max_idx),
                   !.M[max_idx] = NegOne, !.iterations = @ + 1]

\* the loop body without "used_tracks.add(t_idx)"
GreedyAt_no_used_tracks(g, thr, track_ids, detections, max_idx) ==
    IF BelowThreshold(g.M[max_idx], thr)
    THEN [g EXCEPT !.done = TRUE, !.iterations = @ + 1]
    ELSE IF max_idx[1] \in g.used_tracks \/ max_idx[2] \in g.used_dets
    THEN [g EXCEPT !.M[max_idx] = NegOne, !.iterations = @ + 1]
    ELSE [g EXCEPT !.tracks[track_ids[max_idx[1]]] =
                        [bbox |-> detections[max_idx[2]].bbox,
                         score |-> detections[max_idx[2]].score,
                         class_name |-> detections[max_idx[2]].class_name,
                         lost |-> 0],
                   !.used_dets = @ \cup {max_idx[2]},
                   !.pairs = Append(@, max_idx),
                   !.M[max_idx] = NegOne, !.iterations = @ + 1]

\* the loop body without the threshold: it stops only when every entry is -1
GreedyAt_no_threshold(g, thr, track_ids, detections, max_idx) ==
    IF g.M[max_idx][1] < 0
    THEN [g EXCEPT !.done = TRUE, !.iterations = @ + 1]
    ELSE IF max_idx[1] \in g.used_tracks \/ max_idx[2] \in g.used_dets
    THEN [g EXCEPT !.M[max_idx] = NegOne, !.iterations = @ + 1]
    ELSE [g EXCEPT !.tracks[track_ids[max_idx[1]]] =
                        [bbox |-> detections[max_idx[2]].bbox,
                         score |-> detections[max_idx[2]].score,
                         class_name |-> detections[max_idx[2]].class_name,
                         lost |-> 0],
                   !.used_tracks = @ \cup {max_idx[1]},
                   !.used_dets = @ \cup {max_idx[2]},
                   !.pairs = Append(@, max_idx),
                   !.M[max_idx] = NegOne, !.iterations = @ + 1]

\* One pass of the "while True" loop (lines 102-126) with max_idx already
\* located.  g = [M, tracks, used_tracks, used_dets, pairs, iterations, done];
\* pairs lists the (t_idx, d_idx) assigned, in the order the loop assigned them.
GreedyAt(g, thr, track_ids, detections, max_idx) ==
    IF BelowThreshold(g.M[max_idx], thr)
    THEN [g EXCEPT !.done = TRUE, !.iterations = @ + 1]
    ELSE IF max_idx[1] \in g.used_tracks \/ max_idx[2] \in g.used_dets
    THEN [g EXCEPT !.M[max_idx] = NegOne, !.iterations = @ + 1]
    ELSE [g EXCEPT !.tracks[track_ids[max_idx[1]]] =
                        [bbox |-> detections[max_idx[2]].bbox,
                         score |-> detections[max_idx[2]].score,
                         class_name |-> detections[max_idx[2]].class_name,
                         lost |-> 0],
                   !.used_tracks = @ \cup {max_idx[1]},
                   !.used_dets = @ \cup {max_idx[2]},
                   !.pairs = Append(@, max_idx),
                   !.M[max_idx] = NegOne, !.iterations = @ + 1]

RECURSIVE GreedyLoop(_, _, _, _)
GreedyLoop(g, thr, track_ids, detections) ==
    IF g.done THEN g
    ELSE Only({ GreedyLoop(h, thr, track_ids, detections) :
                h \in { GreedyAt(g, thr, track_ids, detections, max_idx) :
                        max_idx \in {ArgMax(g.M)} } })

\* Lines 91-99: the matrix is filled and nothing is used yet.
GreedyStart(tbl, track_ids, detections) ==
    [M |-> IouMatrix(tbl, track_ids, detections), tracks |-> tbl,
     used_tracks |-> {}, used_dets |-> {}, pairs |-> <<>>,
     iterations |-> 0, done |-> FALSE]

Greedy(tbl, track_ids, detections, thr) ==
    Only({ GreedyLoop(g, thr, track_ids, detections) :
           g \in {GreedyStart(tbl, track_ids, detections)} })

\* "tr.lost += 2" in place of "tr.lost += 1"
IncrementLost_by_two(tbl, ids) ==
    Explicit([tid \in DOMAIN tbl |->
                IF tid \in ids THEN [tbl[tid] EXCEPT !.lost = @ + 2] ELSE tbl[tid]])

\* "tr.lost = 1" in place of "tr.lost += 1"
IncrementLost_set_to_one(tbl, ids) ==
    Explicit([tid \in DOMAIN tbl |->
                IF tid \in ids THEN [tbl[tid] EXCEPT !.lost = 1] ELSE tbl[tid]])

\* tr.lost += 1 for the tracks of ids
IncrementLost(tbl, ids) ==
    Explicit([tid \in DOMAIN tbl |->
                IF tid \in ids THEN [tbl[tid] EXCEPT !.lost = @ + 1] ELSE tbl[tid]])

\* deletion one frame late: "tr.lost > self.max_lost + 1"
DeleteLost_late(tbl, maxLost) ==
    Explicit([tid \in {t \in DOMAIN tbl : ~(tbl[t].lost > maxLost + 1)} |-> tbl[tid]])

\* to_delete = [tid ... if tr.lost > self.max_lost]; del self.tracks[tid]
DeleteLost(tbl, maxLost) ==
    Explicit([tid \in {t \in DOMAIN tbl : ~(tbl[t].lost > maxLost)} |-> tbl[tid]])

\* the returned list
OutputsOf(tbl, ks) ==
    [n \in 1..Len(ks) |->
        [id |-> ks[n], bbox |-> tbl[ks[n]].bbox, score |-> tbl[ks[n]].score,
         class_name |-> tbl[ks[n]].class_name, lost |-> tbl[ks[n]].lost]]

Outputs(tbl) == Only({ OutputsOf(tbl, ks) : ks \in {KeysInOrder(DOMAIN tbl)} })

\* Lines 128-138, after the greedy loop g.
\* st = [tracks, next_id, created, matched, pairs, iterations]
AfterGreedy(tbl, nid, detections, track_ids, g) ==
    Only({ [tracks  |-> IncrementLost(new.tracks,
                                      {track_ids[i] : i \in DOMAIN track_ids \ g.used_tracks}),
            next_id |-> new.next_id, created |-> new.created,
            matched |-> {track_ids[i] : i \in g.used_tracks}, pairs |-> g.pairs,
            iterations |-> g.iterations] :
           new \in {CreateAll([tracks |-> g.tracks, next_id |-> nid, created |-> <<>>],
                              detections, (1..Len(detections)) \ g.used_dets, 1)} })

\* Lines 85-138: the table is not empty and there are detections.
MatchBranch(tbl, nid, thr, detections, track_ids) ==
    Only({ AfterGreedy(tbl, nid, detections, track_ids, g) :
           g \in {Greedy(tbl, track_ids, detections, thr)} })

\* lines 80-142 with an empty frame on an empty table still advancing next_id
BeforeDelete_burns_id(tbl, nid, thr, detections) ==
    IF DOMAIN tbl = {}
    THEN Only({ [tracks |-> new.tracks,
                 next_id |-> IF detections = <<>> THEN nid + 1 ELSE new.next_id,
                 created |-> new.created, matched |-> {}, pairs |-> <<>>, iterations |-> 0] :
                new \in {CreateAll([tracks |-> tbl, next_id |-> nid, created |-> <<>>],
                                   detections, 1..Len(detections), 1)} })
    ELSE IF Len(detections) > 0
    THEN Only({ MatchBranch(tbl, nid, thr, detections, track_ids) :
                track_ids \in {KeysInOrder(DOMAIN tbl)} })
    ELSE [tracks |-> IncrementLost(tbl, DOMAIN tbl), next_id |-> nid,
          created |-> <<>>, matched |-> {}, pairs |-> <<>>, iterations |-> 0]

\* Lines 80-142: everything before the deletion.
BeforeDelete(tbl, nid, thr, detections) ==
    IF DOMAIN tbl = {}
    THEN Only({ [tracks |-> new.tracks, next_id |-> new.next_id,
                 created |-> new.created, matched |-> {}, pairs |-> <<>>, iterations |-> 0] :
                new \in {CreateAll([tracks |-> tbl, next_id |-> nid, created |-> <<>>],
                                   detections, 1..Len(detections), 1)} })
    ELSE IF Len(detections) > 0
    THEN Only({ MatchBranch(tbl, nid, thr, detections, track_ids) :
                track_ids \in {KeysInOrder(DOMAIN tbl)} })
    ELSE [tracks |-> IncrementLost(tbl, DOMAIN tbl), next_id |-> nid,
          created |-> <<>>, matched |-> {}, pairs |-> <<>>, iterations |-> 0]

\* IoUTracker.update(detections) from the table tbl and counter nid: the
\* table and counter it leaves, the ids it created and matched, and the list
\* it returns.
Returned(st, kept) ==
    [tracks |-> kept, next_id |-> st.next_id, matched |-> st.matched,
     created |-> st.created, pairs |-> st.pairs, iterations |-> st.iterations,
     outputs |-> Outputs(kept)]

update(tbl, nid, thr, maxLost, detections) ==
    Only({ Only({ Returned(st, kept) : kept \in {DeleteLost(st.tracks, maxLost)} }) :
           st \in {BeforeDelete(tbl, nid, thr, detections)} })

----------------------------------------------------------------------------
(* The tracker's state machine *)

Range(q) == {q[n] : n \in 1..Len(q)}

NoIouCall == [boxA |-> <<0, 0, 0, 0>>, boxB |-> <<0, 0, 0, 0>>, result |-> Zero, made |-> FALSE]

NoLoop == [state |-> "idle"]

\* IoUTracker(iou_threshold, max_lost) with iou_threshold among thresholds
Constructed(thresholds) ==
    /\ iou_threshold \in thresholds
    /\ max_lost \in 0..MaxLostBound
    /\ tracks = <<>>
    /\ next_id = 1
    /\ given = <<>>
    /\ outputs = <<>>
    /\ matched = {}
    /\ issued = <<>>
    /\ misses = <<>>
    /\ feed = <<"fresh">>
    /\ iou_call = NoIouCall
    /\ loop = NoLoop

TrackerInit == Constructed(ThresholdSet)

\* tracker.update(detections) returns r: the fields it leaves and what is
\* observed of the call.  Not taken if it would issue an id above last_id.
TrackerReturn(r, detections, last_id) ==
    \E born \in {Range(r.created)} :
        /\ r.next_id <= last_id + 1
        /\ tracks' = r.tracks
        /\ next_id' = r.next_id
        /\ given' = detections
        /\ outputs' = r.outputs
        /\ matched' = r.matched
        /\ issued' = issued \o r.created
        /\ misses' = [tid \in DOMAIN misses \cup born |->
                        IF tid \in born \/ tid \in r.matched THEN 0
                        ELSE Min2(misses[tid] + 1, max_lost + 1)]
        /\ feed' = IF Len(detections) = 1 /\ feed \in {<<"fresh">>, <<"same", detections[1]>>}
                   THEN <<"same", detections[1]>>
                   ELSE <<"mixed">>
        /\ UNCHANGED <<iou_threshold, max_lost, iou_call>>

\* One call tracker.update(detections).
TrackerCall(detections, last_id) ==
    /\ \E r \in {update(tracks, next_id, iou_threshold, max_lost, detections)} :
            TrackerReturn(r, detections, last_id)
    /\ UNCHANGED loop

\* iou_matrix as lines 86-95 fill it in a call on the table tbl
MatrixFilled(tbl, detections) ==
    IF DOMAIN tbl # {} /\ Len(detections) > 0
    THEN IouMatrix(tbl, KeysInOrder(DOMAIN tbl), detections)
    ELSE <<>>

\* One call tracker.update(detections) with what its loop did kept in loop.
TracedCall(detections, last_id) ==
    \E r \in {update(tracks, next_id, iou_threshold, max_lost, detections)} :
        /\ TrackerReturn(r, detections, last_id)
        /\ loop' = [state |-> "done", matrix |-> MatrixFilled(tracks, detections),
                    pairs |-> r.pairs, iterations |-> r.iterations]

TrackerUpdate(detections) == TrackerCall(detections, MaxId)

TrackerNext == \E detections \in DetLists : TrackerUpdate(detections)

----------------------------------------------------------------------------
(* FireEventManager *)

\* d.get(k, default)
Get(d, k, default) == IF k \in DOMAIN d THEN d[k] ELSE default

\* d[k] = v
Put(d, k, v) == (k :> v) @@ d

\* the loop body without "self.track_last_alert_ts[tid] = now_ts"
LoopBody_no_refresh(st, tr, now_ts, minFrames, cooldown) ==
    Only({ IF Get(counts, tr.id, 0) >= minFrames
              /\ now_ts - Get(st.track_last_alert_ts, tr.id, 0) >= cooldown
           THEN [track_frames_count  |-> counts,
                 track_last_alert_ts |-> st.track_last_alert_ts,
                 confirmed_tracks    |-> Append(st.confirmed_tracks, tr)]
           ELSE [st EXCEPT !.track_frames_count = counts] :
           counts \in {IF tr.lost = 0
                       THEN Put(st.track_frames_count, tr.id,
                                Get(st.track_frames_count, tr.id, 0) + 1)
                       ELSE st.track_frames_count} })

\* the loop body with "count > self.min_frames" in place of ">="
LoopBody_strict_min_frames(st, tr, now_ts, minFrames, cooldown) ==
    Only({ IF Get(counts, tr.id, 0) > minFrames
              /\ now_ts - Get(st.track_last_alert_ts, tr.id, 0) >= cooldown
           THEN [track_frames_count  |-> counts,
                 track_last_alert_ts |-> Put(st.track_last_alert_ts, tr.id, now_ts),
                 confirmed_tracks    |-> Append(st.confirmed_tracks, tr)]
           ELSE [st EXCEPT !.track_frames_count = counts] :
           counts \in {IF tr.lost = 0
                       THEN Put(st.track_frames_count, tr.id,
                                Get(st.track_frames_count, tr.id, 0) + 1)
                       ELSE st.track_frames_count} })

\* the loop body counting consecutive frames: a track with lost > 0 starts
\* again from zero
LoopBody_reset_when_lost(st, tr, now_ts, minFrames, cooldown) ==
    Only({ IF Get(counts, tr.id, 0) >= minFrames
              /\ now_ts - Get(st.track_last_alert_ts, tr.id, 0) >= cooldown
           THEN [track_frames_count  |-> counts,
                 track_last_alert_ts |-> Put(st.track_last_alert_ts, tr.id, now_ts),
                 confirmed_tracks    |-> Append(st.confirmed_tracks, tr)]
           ELSE [st EXCEPT !.track_frames_count = counts] :
           counts \in {IF tr.lost = 0
                       THEN Put(st.track_frames_count, tr.id,
                                Get(st.track_frames_count, tr.id, 0) + 1)
                       ELSE Put(st.track_frames_count, tr.id, 0)} })

\* the loop body with the confirmation inside "if lost == 0": a track that
\* is not seen in the frame is not confirmed
LoopBody_confirm_only_seen(st, tr, now_ts, minFrames, cooldown) ==
    Only({ IF tr.lost = 0
              /\ Get(counts, tr.id, 0) >= minFrames
              /\ now_ts - Get(st.track_last_alert_ts, tr.id, 0) >= cooldown
           THEN [track_frames_count  |-> counts,
                 track_last_alert_ts |-> Put(st.track_last_alert_ts, tr.id, now_ts),
                 confirmed_tracks    |-> Append(st.confirmed_tracks, tr)]
           ELSE [st EXCEPT !.track_frames_count = counts] :
           counts \in {IF tr.lost = 0
                       THEN Put(st.track_frames_count, tr.id,
                                Get(st.track_frames_count, tr.id, 0) + 1)
                       ELSE st.track_frames_count} })

\* the loop body with one cooldown for all tracks: a confirmation restarts
\* the cooldown of every id that has an alert time
LoopBody_shared_cooldown(st, tr, now_ts, minFrames, cooldown) ==
    Only({ IF Get(counts, tr.id, 0) >= minFrames
              /\ now_ts - Get(st.track_last_alert_ts, tr.id, 0) >= cooldown
           THEN [track_frames_count  |-> counts,
                 track_last_alert_ts |->
                    [tid \in DOMAIN st.track_last_alert_ts \cup {tr.id} |-> now_ts],
                 confirmed_tracks    |-> Append(st.confirmed_tracks, tr)]
           ELSE [st EXCEPT !.track_frames_count = counts] :
           counts \in {IF tr.lost = 0
                       THEN Put(st.track_frames_count, tr.id,
                                Get(st.track_frames_count, tr.id, 0) + 1)
                       ELSE st.track_frames_count} })

\* the loop body alerting once per track: a track that has an alert time is
\* not confirmed again
LoopBody_one_shot(st, tr, now_ts, minFrames, cooldown) ==
    Only({ IF Get(counts, tr.id, 0) >= minFrames
              /\ tr.id \notin DOMAIN st.track_last_alert_ts
              /\ now_ts - Get(st.track_last_alert_ts, tr.id, 0) >= cooldown
           THEN [track_frames_count  |-> counts,
                 track_last_alert_ts |-> Put(st.track_last_alert_ts, tr.id, now_ts),
                 confirmed_tracks    |-> Append(st.confirmed_tracks, tr)]
           ELSE [st EXCEPT !.track_frames_count = counts] :
           counts \in {IF tr.lost = 0
                       THEN Put(st.track_frames_count, tr.id,
                                Get(st.track_frames_count, tr.id, 0) + 1)
                       ELSE st.track_frames_count} })

\* The body of "for tr in tracks" (lines 66-86) for one track, on
\* st = [track_frames_count, track_last_alert_ts, confirmed_tracks].
LoopBody(st, tr, now_ts, minFrames, cooldown) ==
    Only({ IF Get(counts, tr.id, 0) >= minFrames
              /\ now_ts - Get(st.track_last_alert_ts, tr.id, 0) >= cooldown
           THEN [track_frames_count  |-> counts,
                 track_last_alert_ts |-> Put(st.track_last_alert_ts, tr.id, now_ts),
                 confirmed_tracks    |-> Append(st.confirmed_tracks, tr)]
           ELSE [st EXCEPT !.track_frames_count = counts] :
           counts \in {IF tr.lost = 0
                       THEN Put(st.track_frames_count, tr.id,
                                Get(st.track_frames_count, tr.id, 0) + 1)
                       ELSE st.track_frames_count} })

RECURSIVE TrackLoop(_, _, _, _, _, _)
TrackLoop(st, tracks_arg, n, now_ts, minFrames, cooldown) ==
    IF n > Len(tracks_arg) THEN st
    ELSE Only({ TrackLoop(s2, tracks_arg, n + 1, now_ts, minFrames, cooldown) :
                s2 \in {LoopBody(st, tracks_arg[n], now_ts, minFrames, cooldown)} })

\* meta (lines 100-107)
Meta(frame_idx, detections, tracks_arg, confirmed_tracks) ==
    [frame_idx |-> frame_idx,
     num_detections |-> Len(detections),
     num_tracks |-> Len(tracks_arg),
     num_confirmed |-> Len(confirmed_tracks),
     confirmed_track_ids |-> [n \in 1..Len(confirmed_tracks) |-> confirmed_tracks[n].id],
     location |-> "demo"]

\* lines 88-110 calling the callback once per confirmed track
AfterLoop_callback_per_track(st, detections, tracks_arg, frame_idx, fault) ==
    [track_frames_count  |-> st.track_frames_count,
     track_last_alert_ts |-> st.track_last_alert_ts,
     confirmed |-> [n \in 1..Len(st.confirmed_tracks) |-> st.confirmed_tracks[n].id],
     saved     |-> st.confirmed_tracks # <<>> /\ fault # "save",
     callbacks |-> IF st.confirmed_tracks # <<>> /\ fault # "save"
                   THEN [n \in 1..Len(st.confirmed_tracks) |->
                            Meta(frame_idx, detections, tracks_arg, <<st.confirmed_tracks[n]>>)]
                   ELSE <<>>,
     raised    |-> IF st.confirmed_tracks # <<>> THEN fault ELSE "none"]

\* lines 88-110 forgetting the alert time of the confirmed tracks when the
\* image or the callback raises
AfterLoop_rollback(st, detections, tracks_arg, frame_idx, fault) ==
    [track_frames_count  |-> st.track_frames_count,
     track_last_alert_ts |->
        IF st.confirmed_tracks # <<>> /\ fault # "none"
        THEN [tid \in DOMAIN st.track_last_alert_ts \
                      {st.confirmed_tracks[n].id : n \in DOMAIN st.confirmed_tracks} |->
                st.track_last_alert_ts[tid]]
        ELSE st.track_last_alert_ts,
     confirmed |-> [n \in 1..Len(st.confirmed_tracks) |-> st.confirmed_tracks[n].id],
     saved     |-> st.confirmed_tracks # <<>> /\ fault # "save",
     callbacks |-> IF st.confirmed_tracks # <<>> /\ fault # "save"
                   THEN <<Meta(frame_idx, detections, tracks_arg, st.confirmed_tracks)>>
                   ELSE <<>>,
     raised    |-> IF st.confirmed_tracks # <<>> THEN fault ELSE "none"]

\* lines 88-110 with the image saved inside "try: ... except Exception: pass":
\* a failure to save is swallowed and the callback is called all the same
AfterLoop_catches_save(st, detections, tracks_arg, frame_idx, fault) ==
    [track_frames_count  |-> st.track_frames_count,
     track_last_alert_ts |-> st.track_last_alert_ts,
     confirmed |-> [n \in 1..Len(st.confirmed_tracks) |-> st.confirmed_tracks[n].id],
     saved     |-> st.confirmed_tracks # <<>> /\ fault # "save",
     callbacks |-> IF st.confirmed_tracks # <<>>
                   THEN <<Meta(frame_idx, detections, tracks_arg, st.confirmed_tracks)>>
                   ELSE <<>>,
     raised    |-> IF st.confirmed_tracks # <<>> /\ fault = "callback" THEN fault ELSE "none"]

\* Lines 88-110 after the loop left st.  fault is what the environment does
\* to this call: "save" makes _save_event_image raise (os.makedirs, the
\* drawing or cv2.imwrite), "callback" makes on_event_confirmed raise, "none"
\* neither.  Nothing is caught, so the exception leaves update at that line.
AfterLoop(st, detections, tracks_arg, frame_idx, fault) ==
    [track_frames_count  |-> st.track_frames_count,
     track_last_alert_ts |-> st.track_last_alert_ts,
     confirmed |-> [n \in 1..Len(st.confirmed_tracks) |-> st.confirmed_tracks[n].id],
     saved     |-> st.confirmed_tracks # <<>> /\ fault # "save",
     callbacks |-> IF st.confirmed_tracks # <<>> /\ fault # "save"
                   THEN <<Meta(frame_idx, detections, tracks_arg, st.confirmed_tracks)>>
                   ELSE <<>>,
     raised    |-> IF st.confirmed_tracks # <<>> THEN fault ELSE "none"]

\* The faults that can show in a call: none of them when nothing is
\* confirmed, since then neither the image nor the callback is reached.
Faults(st) == IF st.confirmed_tracks # <<>> THEN {"none", "save", "callback"} ELSE {"none"}

\* the loop followed by a clean-up that drops the records of the ids that
\* are not in active_track_ids
BeforeSave_drop_inactive(counts, alerts, minFrames, cooldown, tracks_arg, now_ts) ==
    Only({ [track_frames_count |->
                [tid \in DOMAIN st.track_frames_count \cap
                         {tracks_arg[n].id : n \in DOMAIN tracks_arg} |->
                    st.track_frames_count[tid]],
            track_last_alert_ts |->
                [tid \in DOMAIN st.track_last_alert_ts \cap
                         {tracks_arg[n].id : n \in DOMAIN tracks_arg} |->
                    st.track_last_alert_ts[tid]],
            confirmed_tracks |-> st.confirmed_tracks] :
           st \in {TrackLoop([track_frames_count |-> counts, track_last_alert_ts |-> alerts,
                              confirmed_tracks |-> <<>>],
                             tracks_arg, 1, now_ts, minFrames, cooldown)} })

\* Lines 60-86 of FireEventManager.update(detections, tracks, frame_idx,
\* frame), with time.time() reading now_ts: the loop over the tracks.
BeforeSave(counts, alerts, minFrames, cooldown, tracks_arg, now_ts) ==
    TrackLoop([track_frames_count |-> counts, track_last_alert_ts |-> alerts,
               confirmed_tracks |-> <<>>],
              tracks_arg, 1, now_ts, minFrames, cooldown)

----------------------------------------------------------------------------
(* The engine's state machine *)

\* streak after a call that was given tracks_arg: one more for a track of
\* the list with lost = 0, zero for every other id
StreakAfter(tracks_arg) ==
    [tid \in DOMAIN streak \cup {tracks_arg[n].id : n \in DOMAIN tracks_arg} |->
        IF \E n \in DOMAIN tracks_arg : tracks_arg[n].id = tid /\ tracks_arg[n].lost = 0
        THEN Get(streak, tid, 0) + 1
        ELSE 0]

\* Track lists shown to the engine: distinct ids (a tracker reports each
\* track once), in any order, each with lost = 0 or lost > 0.
IdLists ==
    {q \in UNION {[1..n -> TrackIdSet] : n \in 0..Cardinality(TrackIdSet)} :
        \A a, b \in DOMAIN q : a # b => q[a] # q[b]}

TrackLists ==
    UNION { {[n \in DOMAIN q |-> [id |-> q[n], lost |-> l[n]]] : l \in [DOMAIN q -> {0, 1}]} :
            q \in IdLists }

\* The detections of the frame: one per track seen in it (lost = 0).
DetectionsOf(tracks_arg) == SelectSeq(tracks_arg, LAMBDA t : t.lost = 0)

NoCall == [tracks |-> <<>>, now_ts |-> 0, confirmed |-> <<>>, saved |-> FALSE,
           callbacks |-> <<>>, fault |-> "none", raised |-> "none"]

EngineInit ==
    /\ min_frames \in 1..MaxMinFrames
    /\ cooldown_seconds \in 0..MaxCooldown
    /\ track_frames_count = <<>>
    /\ track_last_alert_ts = <<>>
    /\ call = NoCall
    /\ updates = 0
    /\ last_confirmed_at = <<>>
    /\ times_confirmed = <<>>
    /\ undelivered = {}
    /\ streak = <<>>

\* One call event_manager.update(detections, tracks, frame_idx, frame) with
\* time.time() reading now_ts, frame_idx counting the calls.
EngineCall(detections, tracks_arg, now_ts) ==
    \E st \in {BeforeSave(track_frames_count, track_last_alert_ts, min_frames,
                          cooldown_seconds, tracks_arg, now_ts)} :
    \E fault \in Faults(st) :
    \E r \in {AfterLoop(st, detections, tracks_arg, updates, fault)} :
        /\ updates < MaxUpdates
        /\ track_frames_count' = r.track_frames_count
        /\ track_last_alert_ts' = r.track_last_alert_ts
        /\ call' = [tracks |-> tracks_arg, now_ts |-> now_ts, confirmed |-> r.confirmed,
                    saved |-> r.saved, callbacks |-> r.callbacks, fault |-> fault,
                    raised |-> r.raised]
        /\ updates' = updates + 1
        /\ last_confirmed_at' =
              [tid \in DOMAIN last_confirmed_at \cup Range(r.confirmed) |->
                  IF tid \in Range(r.confirmed) THEN now_ts ELSE last_confirmed_at[tid]]
        /\ times_confirmed' =
              [tid \in DOMAIN times_confirmed \cup Range(r.confirmed) |->
                  IF tid \in Range(r.confirmed) THEN Get(times_confirmed, tid, 0) + 1
                  ELSE times_confirmed[tid]]
        /\ undelivered' = IF r.raised = "none" THEN undelivered \ Range(r.confirmed)
                          ELSE undelivered \cup Range(r.confirmed)
        /\ streak' = StreakAfter(tracks_arg)
        /\ UNCHANGED <<min_frames, cooldown_seconds, notifier_vars>>

\* The call as the frame loop of main makes it (main.py:99-139): one track
\* with lost = 0 per detection that has an id.
EngineUpdate(tracks_arg, now_ts) == EngineCall(DetectionsOf(tracks_arg), tracks_arg, now_ts)

EngineNext ==
    \E tracks_arg \in TrackLists, now_ts \in 0..MaxTime : EngineUpdate(tracks_arg, now_ts)

----------------------------------------------------------------------------
(* TelegramNotifier: the constructing thread and the event-loop thread *)

\* no notifier is being constructed
NoNotifier ==
    /\ bot_token = "" /\ chat_id = "" /\ enabled = FALSE
    /\ bot = "None" /\ event_loop = "None" /\ loop_thread = "None"
    /\ ctor = "none" /\ sent_log = <<>>

\* on entry to __init__(bot_token, chat_id, enabled): enabled holds the
\* argument, lines 26-28 give the three None
NotifierEntry ==
    /\ bot_token \in {"", "token"} /\ chat_id \in {"", "chat"} /\ enabled \in BOOLEAN
    /\ bot = "None" /\ event_loop = "None" /\ loop_thread = "None"
    /\ ctor = "entry" /\ sent_log = <<>>

\* Lines 20-50, up to loop_thread.start().  fault: "bot" makes Bot(...) raise,
\* "thread" makes the thread creation or start raise, "none" neither; both
\* are caught at line 35 and disable the notifier.
NotifierConstruct(fault) ==
    /\ ctor = "entry"
    /\ IF ~(enabled /\ bot_token # "" /\ chat_id # "")
       THEN /\ enabled' = FALSE
            /\ ctor' = "returned"
            /\ UNCHANGED <<bot, loop_thread>>
       ELSE IF fault = "bot"
       THEN /\ enabled' = FALSE
            /\ ctor' = "returned"
            /\ UNCHANGED <<bot, loop_thread>>
       ELSE IF fault = "thread"
       THEN /\ enabled' = FALSE
            /\ bot' = "Bot"
            /\ ctor' = "returned"
            /\ UNCHANGED loop_thread
       ELSE /\ enabled' = TRUE
            /\ bot' = "Bot"
            /\ loop_thread' = "started"
            /\ ctor' = "sleeping"
    /\ UNCHANGED <<bot_token, chat_id, event_loop, sent_log>>
    /\ UNCHANGED <<tracker_vars, engine_vars>>

\* The loop thread, lines 45-46: self.loop = asyncio.new_event_loop()
RunEventLoopCreate ==
    /\ loop_thread = "started"
    /\ event_loop' = "loop"
    /\ loop_thread' = "loop_set"
    /\ UNCHANGED <<bot_token, chat_id, enabled, bot, ctor, sent_log>>
    /\ UNCHANGED <<tracker_vars, engine_vars>>

\* The loop thread, line 47: self.loop.run_forever()
RunEventLoopForever ==
    /\ loop_thread = "loop_set"
    /\ loop_thread' = "running"
    /\ UNCHANGED <<bot_token, chat_id, enabled, bot, event_loop, ctor, sent_log>>
    /\ UNCHANGED <<tracker_vars, engine_vars>>

\* The constructing thread, line 54: time.sleep(0.1) is over and __init__
\* returns.  The sleep waits for time to pass, not for the loop thread: it
\* ends wherever that thread stands.
ConstructorReturns ==
    /\ ctor = "sleeping"
    /\ ctor' = "returned"
    /\ UNCHANGED <<bot_token, chat_id, enabled, bot, event_loop, loop_thread, sent_log>>
    /\ UNCHANGED <<tracker_vars, engine_vars>>

\* send_fire_alert(image_path, meta), called once __init__ has returned, up
\* to line 93: "simulated" (lines 63-68) and "loop_missing" (lines 88-90)
\* return at once, otherwise the coroutine is handed to the loop and the
\* caller waits for its result at line 98.
SendFireAlert ==
    /\ ctor = "returned"
    /\ Len(sent_log) < MaxSends
    /\ IF ~enabled \/ bot = "None"
       THEN sent_log' = Append(sent_log, "simulated") /\ UNCHANGED ctor
       ELSE IF event_loop = "None"
       THEN sent_log' = Append(sent_log, "loop_missing") /\ UNCHANGED ctor
       ELSE ctor' = "waiting" /\ UNCHANGED sent_log
    /\ UNCHANGED <<bot_token, chat_id, enabled, bot, event_loop, loop_thread>>
    /\ UNCHANGED <<tracker_vars, engine_vars>>

\* How future.result(timeout=10) can end: "sent" (line 99) needs the loop to
\* run the coroutine; "failed" (line 101) is the send raising or the wait
\* timing out.
SendOutcomes == IF loop_thread = "running" THEN {"sent", "failed"} ELSE {"failed"}

\* send_fire_alert, lines 98-101
SendFireAlertResult ==
    /\ ctor = "waiting"
    /\ \E outcome \in SendOutcomes : sent_log' = Append(sent_log, outcome)
    /\ ctor' = "returned"
    /\ UNCHANGED <<bot_token, chat_id, enabled, bot, event_loop, loop_thread>>
    /\ UNCHANGED <<tracker_vars, engine_vars>>

\* TelegramNotifier(bot_token, chat_id, enabled), whatever fails inside
NotifierNew == \E fault \in {"none", "bot", "thread"} : NotifierConstruct(fault)

NotifierInit ==
    TrackerInit /\ EngineInit /\ NotifierEntry
    /\ iou_threshold = <<3, 10>> /\ max_lost = 0 /\ min_frames = 1 /\ cooldown_seconds = 0

NotifierNext ==
    \/ NotifierNew
    \/ RunEventLoopCreate
    \/ RunEventLoopForever
    \/ ConstructorReturns
    \/ SendFireAlert
    \/ SendFireAlertResult

SpecNotifier == NotifierInit /\ [][NotifierNext]_vars

----------------------------------------------------------------------------
(* The specifications of the tracker and the engine *)

Init == TrackerInit /\ EngineInit /\ NoNotifier

Next ==
    \/ TrackerNext /\ UNCHANGED <<engine_vars, notifier_vars>>
    \/ EngineNext /\ UNCHANGED tracker_vars

Spec == Init /\ [][Next]_vars

\* The tracker alone, beside an engine that is constructed and left alone.
TrackerOnlyInit ==
    TrackerInit /\ EngineInit /\ NoNotifier /\ min_frames = 1 /\ cooldown_seconds = 0

TrackerOnlyNext == TrackerNext /\ UNCHANGED <<engine_vars, notifier_vars>>

SpecTracker == TrackerOnlyInit /\ [][TrackerOnlyNext]_vars

\* The engine alone, beside a tracker that is constructed and left alone.
EngineOnlyInit ==
    EngineInit /\ NoNotifier /\ TrackerInit /\ iou_threshold = <<3, 10>> /\ max_lost = 0

EngineOnlyNext == EngineNext /\ UNCHANGED tracker_vars

SpecEngine == EngineOnlyInit /\ [][EngineOnlyNext]_vars

----------------------------------------------------------------------------
(* The tracker feeding the engine *)

\* One frame: tracks = tracker.update(detections), then
\* event_manager.update(detections, tracks, frame_idx, frame) on the list
\* the tracker returned.
PipelineFrame(detections) ==
    /\ TrackerUpdate(detections)
    /\ \E now_ts \in 0..MaxTime : EngineCall(detections, outputs', now_ts)

PipelineInit ==
    TrackerInit /\ EngineInit /\ NoNotifier /\ iou_threshold = <<3, 10>> /\ max_lost = 0

\* Frames of the pipeline: nothing detected, or one detection.
PipelineDetLists == {q \in DetLists : Len(q) <= 1}

PipelineNext == \E detections \in PipelineDetLists : PipelineFrame(detections)

SpecPipeline == PipelineInit /\ [][PipelineNext]_vars

----------------------------------------------------------------------------
(* The tracker and the engine side by side: each is called on its own, the *)
(* engine on the list the tracker returned last.                           *)

SharedTrackerCall ==
    /\ \E detections \in PipelineDetLists : TrackerUpdate(detections)
    /\ UNCHANGED <<engine_vars, notifier_vars>>

SharedEngineCall ==
    /\ \E now_ts \in 0..MaxTime : EngineCall(given, outputs, now_ts)
    /\ UNCHANGED tracker_vars

SharedInit == PipelineInit

SharedNext == SharedTrackerCall \/ SharedEngineCall

SpecShared == SharedInit /\ [][SharedNext]_vars

----------------------------------------------------------------------------
(* The first two frames of the tracker, on more boxes *)

\* BoxB and BoxC overlap BoxA equally (2 / (4 + 1e-6)).
MatchDetSet ==
    DetSet \cup { [bbox |-> BoxC, score |-> 6, class_name |-> "fire"] }

MatchDetLists == UNION { [1..n -> MatchDetSet] : n \in 0..MaxDets }

\* One frame of a frame loop that runs the tracker only; updates counts the
\* frames.
MatchFrame(detections) ==
    /\ updates < 2
    /\ TracedCall(detections, 2 * MaxDets)
    /\ updates' = updates + 1
    /\ UNCHANGED <<min_frames, cooldown_seconds, track_frames_count, track_last_alert_ts,
                   call, last_confirmed_at, times_confirmed, undelivered, streak, notifier_vars>>

MatchInit == TrackerInit /\ EngineInit /\ NoNotifier /\ min_frames = 1 /\ cooldown_seconds = 0

MatchNext == \E detections \in MatchDetLists : MatchFrame(detections)

SpecMatch == MatchInit /\ [][MatchNext]_vars

----------------------------------------------------------------------------
(* The frame loop of main *)

\* The track lists main builds (main.py:105-136): one track per box that has
\* an id, each with "lost": 0.
MainTrackLists == {q \in TrackLists : \A n \in DOMAIN q : q[n].lost = 0}

\* One pass of "for frame_idx, r in enumerate(results)" (main.py:99-139).
\* event_manager.update is called outside any try block, so an exception it
\* raises leaves the loop and main: a pass is made only while no call raised.
MainFrame(tracks_arg, now_ts) ==
    /\ call.raised = "none"
    /\ EngineUpdate(tracks_arg, now_ts)

MainInit == EngineInit /\ NoNotifier /\ TrackerInit /\ iou_threshold = <<3, 10>> /\ max_lost = 0

MainNext ==
    (\E tracks_arg \in MainTrackLists, now_ts \in 0..MaxTime : MainFrame(tracks_arg, now_ts))
        /\ UNCHANGED tracker_vars

SpecMain == MainInit /\ [][MainNext]_vars

----------------------------------------------------------------------------
(* compute_iou on its own *)

\* Every (x1, y1, x2, y2) over the grid: valid, degenerate and inverted boxes.
GridBoxes == (0..MaxCoord) \X (0..MaxCoord) \X (0..MaxCoord) \X (0..MaxCoord)

\* One call compute_iou(boxA, boxB).
IouCall(boxA, boxB) ==
    /\ iou_call' = [boxA |-> boxA, boxB |-> boxB, result |-> compute_iou(boxA, boxB),
                    made |-> TRUE]
    /\ UNCHANGED <<iou_threshold, max_lost, tracks, next_id, given, outputs, matched,
                   issued, misses, feed, loop>>

IouInit == TrackerInit /\ EngineInit /\ NoNotifier /\ iou_threshold = <<3, 10>> /\ max_lost = 0
           /\ min_frames = 1 /\ cooldown_seconds = 0

\* one call is examined in each run
IouNext ==
    /\ ~iou_call.made
    /\ \E boxA, boxB \in GridBoxes : IouCall(boxA, boxB)
    /\ UNCHANGED <<engine_vars, notifier_vars>>

SpecIou == IouInit /\ [][IouNext]_vars

----------------------------------------------------------------------------
(* One IoUTracker.update call followed through its "while True" loop, one   *)
(* pass at a time, for thresholds that include negative ones.              *)

\* -1 and -0.5 next to the thresholds of the other runs
GreedyThresholdSet == ThresholdSet \cup { <<-1, 1>>, <<-1, 2>> }

\* passes followed in one call: one more than the claimed bound T*D + 1 for
\* the largest matrix of a run
MaxIterations == MaxDets * MaxDets + 2

\* a first call, on the empty table: it does not enter the loop (lines 80-83)
GreedyFirstFrame ==
    /\ loop.state = "idle"
    /\ DOMAIN tracks = {}
    /\ \E detections \in MatchDetLists : TrackerCall(detections, MaxDets)
    /\ UNCHANGED <<engine_vars, notifier_vars>>

\* lines 84-99 of a call on a table with tracks and with detections
GreedyEnter ==
    /\ loop.state = "idle"
    /\ DOMAIN tracks # {}
    /\ \E detections \in MatchDetLists \ {<<>>} :
       \E track_ids \in {KeysInOrder(DOMAIN tracks)} :
            loop' = [state |-> "running", detections |-> detections, track_ids |-> track_ids,
                     g |-> GreedyStart(tracks, track_ids, detections)]
    /\ UNCHANGED <<iou_threshold, max_lost, tracks, next_id, given, outputs, matched,
                   issued, misses, feed, iou_call>>
    /\ UNCHANGED <<engine_vars, notifier_vars>>

\* one pass of the loop, lines 102-126
GreedyPass ==
    /\ loop.state = "running"
    /\ ~loop.g.done
    /\ loop.g.iterations < MaxIterations
    /\ loop' = [loop EXCEPT !.g = GreedyAt(loop.g, iou_threshold, loop.track_ids,
                                           loop.detections, ArgMax(loop.g.M))]
    /\ UNCHANGED <<iou_threshold, max_lost, tracks, next_id, given, outputs, matched,
                   issued, misses, feed, iou_call>>
    /\ UNCHANGED <<engine_vars, notifier_vars>>

\* after "break": lines 128-161
GreedyReturn ==
    /\ loop.state = "running"
    /\ loop.g.done
    /\ \E st \in {AfterGreedy(tracks, next_id, loop.detections, loop.track_ids, loop.g)} :
       \E kept \in {DeleteLost(st.tracks, max_lost)} :
            /\ TrackerReturn(Returned(st, kept), loop.detections, 2 * MaxDets)
            /\ loop' = [state |-> "done", matrix |-> MatrixFilled(tracks, loop.detections),
                        pairs |-> st.pairs, iterations |-> st.iterations]
    /\ UNCHANGED <<engine_vars, notifier_vars>>

GreedyInit == Constructed(GreedyThresholdSet) /\ EngineInit /\ NoNotifier
              /\ min_frames = 1 /\ cooldown_seconds = 0

GreedyNext == GreedyFirstFrame \/ GreedyEnter \/ GreedyPass \/ GreedyReturn

SpecGreedy == GreedyInit /\ [][GreedyNext]_vars

----------------------------------------------------------------------------
(* The engine in a frame loop that never ends *)

\* An endless run has unbounded frames_seen and clock readings.  The code
\* reads a count only in "count >= self.min_frames" and a time only in
\* "now_ts - last_alert >= self.cooldown_seconds", so the run is kept finite
\* without changing any decision of the code:
\*   - a count is kept up to FramesCap >= min_frames and no further;
\*   - time is measured from an origin that moves once the clock passes
\*     ClockWindow >= cooldown_seconds: the clock and every stored time go
\*     back by the same shift, a stored time stopping at 0 (its age is then
\*     at least ClockWindow, as is the age of a missing entry, read as 0.0).
FramesCap == MaxMinFrames
ClockWindow == MaxCooldown + 1

Saturated(d, cap) == Explicit([k \in DOMAIN d |-> Min2(d[k], cap)])

Rebased(d, shift) == Explicit([k \in DOMAIN d |-> Max2(d[k] - shift, 0)])

\* Track lists of a run in which track 1 is seen (lost = 0) in every frame.
LiveTrackLists ==
    {q \in TrackLists : \E n \in DOMAIN q : q[n].id = 1 /\ q[n].lost = 0}

\* One call of FireEventManager.update with the clock reading elapsed
\* seconds more than in the previous call.
LiveUpdate(tracks_arg, elapsed) ==
    \E now_ts \in {call.now_ts + elapsed} :
    \E st \in {BeforeSave(track_frames_count, track_last_alert_ts, min_frames,
                          cooldown_seconds, tracks_arg, now_ts)} :
    \E fault \in Faults(st) :
    \E r \in {AfterLoop(st, DetectionsOf(tracks_arg), tracks_arg, updates, fault)} :
    \E shift \in {Max2(now_ts - ClockWindow, 0)} :
        /\ track_frames_count' = Saturated(r.track_frames_count, FramesCap)
        /\ track_last_alert_ts' = Rebased(r.track_last_alert_ts, shift)
        /\ call' = [tracks |-> tracks_arg, now_ts |-> now_ts - shift,
                    confirmed |-> r.confirmed, saved |-> r.saved,
                    callbacks |-> r.callbacks, fault |-> fault, raised |-> r.raised]
        /\ updates' = Min2(updates + 1, MaxUpdates)
        /\ last_confirmed_at' =
              Rebased([tid \in DOMAIN last_confirmed_at \cup Range(r.confirmed) |->
                          IF tid \in Range(r.confirmed) THEN now_ts
                          ELSE last_confirmed_at[tid]], shift)
        /\ times_confirmed' =
              Saturated([tid \in DOMAIN times_confirmed \cup Range(r.confirmed) |->
                            IF tid \in Range(r.confirmed)
                            THEN Get(times_confirmed, tid, 0) + 1
                            ELSE times_confirmed[tid]], MaxUpdates)
        /\ undelivered' = IF r.raised = "none" THEN undelivered \ Range(r.confirmed)
                          ELSE undelivered \cup Range(r.confirmed)
        /\ streak' = Saturated(StreakAfter(tracks_arg), FramesCap)
        /\ UNCHANGED <<min_frames, cooldown_seconds, notifier_vars>>

LiveInit == EngineInit /\ NoNotifier /\ TrackerInit /\ iou_threshold = <<3, 10>> /\ max_lost = 0

\* a frame processed within the same second as the previous one
LiveSameSecond ==
    (\E tracks_arg \in LiveTrackLists : LiveUpdate(tracks_arg, 0)) /\ UNCHANGED tracker_vars

\* a frame processed a second later
LiveTick ==
    (\E tracks_arg \in LiveTrackLists : LiveUpdate(tracks_arg, 1)) /\ UNCHANGED tracker_vars

LiveNext == LiveSameSecond \/ LiveTick

\* The frame loop keeps running and the clock keeps advancing.
SpecLive == LiveInit /\ [][LiveNext]_vars /\ WF_vars(LiveTick)

----------------------------------------------------------------------------
(* Properties of the tracker *)

OutputIds == {outputs[n].id : n \in DOMAIN outputs}

\* C1: after every update, every track of the Track Table and of the
\* returned list has 0 <= lost <= max_lost.
C1_LostWithinMaxLost ==
    /\ \A tid \in DOMAIN tracks : 0 <= tracks[tid].lost /\ tracks[tid].lost <= max_lost
    /\ \A n \in DOMAIN outputs : 0 <= outputs[n].lost /\ outputs[n].lost <= max_lost

\* a track has been deleted for exceeding max_lost while another one is
\* kept at lost = max_lost >= 1
C1_Witness ==
    /\ max_lost >= 1
    /\ \E tid \in Range(issued) : tid \notin DOMAIN tracks
    /\ \E tid \in DOMAIN tracks : tracks[tid].lost = max_lost

\* C2: the ids issued by one tracker start at 1, are strictly increasing in
\* the order of issue, and none is issued twice.
C2_IdsStrictlyIncreasing ==
    /\ Len(issued) > 0 => issued[1] = 1
    /\ \A m, n \in DOMAIN issued : m < n => issued[m] < issued[n]
    /\ DOMAIN tracks \subseteq Range(issued)

\* a second id has been issued after the track holding the first was deleted
C2_Witness ==
    /\ Len(issued) = 2
    /\ issued[1] \notin DOMAIN tracks
    /\ issued[2] \in DOMAIN tracks

\* C3: a track that has gone k consecutive updates without a match since it
\* was last matched or created is in the returned list with lost = k as long
\* as k <= max_lost, and is absent from it once k = max_lost + 1.
C3_LostCountsMisses ==
    \A tid \in DOMAIN misses :
        IF misses[tid] <= max_lost
        THEN \E n \in DOMAIN outputs :
                outputs[n].id = tid /\ outputs[n].lost = misses[tid]
        ELSE tid \notin OutputIds

\* a track has just missed max_lost + 1 updates in a row, with max_lost >= 1
C3_Witness ==
    /\ max_lost >= 1
    /\ \E tid \in DOMAIN misses : misses[tid] = max_lost + 1 /\ tid \notin OutputIds

SameDetectionKept ==
    /\ Len(outputs) = 1
    /\ outputs[1].id = issued[1]
    /\ outputs[1].lost = 0
    /\ Len(issued) = 1

\* C4 as stated: feeding the same single detection to every update keeps
\* one track with the first id and lost = 0, for every iou_threshold in [0,1].
C4_AnyThreshold == feed[1] = "same" => SameDetectionKept

\* C4, amended: the same holds for every iou_threshold that does not exceed
\* compute_iou(box, box) = area / (area + 1e-6), which is below 1.
C4_SameDetectionKeepsId ==
    (/\ feed[1] = "same"
     /\ ~BelowThreshold(compute_iou(feed[2].bbox, feed[2].bbox), iou_threshold))
        => SameDetectionKept

\* the same detection has been fed at least twice and matched its track
C4_Witness ==
    /\ feed[1] = "same"
    /\ matched = {1}
    /\ iou_threshold = <<3, 10>>
    /\ SameDetectionKept

----------------------------------------------------------------------------
(* Properties of the engine *)

\* an engine update is being made
EngineStep == updates' = updates + 1

IdsOf(q) == {q[n].id : n \in DOMAIN q}

\* the ids of the track list q, in its order, that are in S
IdsInOrder(q, S) == SelectSeq([n \in DOMAIN q |-> q[n].id], LAMBDA tid : tid \in S)

\* the tracks of the call being made that are reported with lost = 0
SeenNow == {call'.tracks[n].id : n \in {m \in DOMAIN call'.tracks : call'.tracks[m].lost = 0}}

\* tid meets both conditions in the call being made: frames_seen after the
\* counting step, and the time since the alert recorded before the call
Qualifies(tid) ==
    /\ Get(track_frames_count', tid, 0) >= min_frames
    /\ call'.now_ts - Get(track_last_alert_ts, tid, 0) >= cooldown_seconds

\* C5: a call that confirms an id confirmed before reads the clock at
\* least cooldown_seconds after the call that confirmed it last.
C5_AlertsSpacedByCooldown ==
    [][EngineStep =>
        \A tid \in Range(call'.confirmed) :
            tid \in DOMAIN last_confirmed_at =>
                call'.now_ts - last_confirmed_at[tid] >= cooldown_seconds]_vars

\* an id has been confirmed by two calls, with a cooldown above zero
C5_Witness ==
    /\ cooldown_seconds >= 1
    /\ \E tid \in DOMAIN times_confirmed :
          times_confirmed[tid] >= 2 /\ tid \in Range(call.confirmed)

\* C6: an id reported with lost = 0 in every update so far is reported by
\* the callback in update number min_frames (unless saving the image raised),
\* whatever cooldown_seconds and the clock reading are.
C6_FirstAlertAtMinFrames ==
    \A tid \in TrackIdSet :
        (/\ updates = min_frames
         /\ Get(track_frames_count, tid, 0) = updates
         /\ call.raised # "save")
            => /\ Len(call.callbacks) = 1
               /\ tid \in Range(call.callbacks[1].confirmed_track_ids)

\* what the callback must have been given in the call being made, when the
\* ids in S were confirmed
OneCallbackFor(S) ==
    /\ Len(call'.callbacks) = 1
    /\ call'.callbacks[1].confirmed_track_ids = IdsInOrder(call'.tracks, S)
    /\ call'.callbacks[1].num_confirmed = Cardinality(S)

\* C7 as stated: in every call the callback is invoked once if some track
\* qualified, with the qualifying ids in track-list order and their number,
\* and not at all otherwise.
C7_CallbackOnceInEveryCall ==
    [][EngineStep =>
        LET S == {tid \in IdsOf(call'.tracks) : Qualifies(tid)}
        IN  IF S # {} THEN OneCallbackFor(S) ELSE call'.callbacks = <<>>]_vars

\* C7, amended: the same in every call in which saving the event image does
\* not raise; when it raises, the callback is not invoked.
C7_CallbackOnceUnlessSaveRaises ==
    [][EngineStep =>
        LET S == {tid \in IdsOf(call'.tracks) : Qualifies(tid)}
        IN  IF S # {} /\ call'.raised # "save"
            THEN OneCallbackFor(S)
            ELSE call'.callbacks = <<>>]_vars

\* one call confirmed two tracks and reported them in one callback
C7_Witness ==
    /\ Len(call.confirmed) = 2
    /\ Len(call.callbacks) = 1
    /\ call.callbacks[1].confirmed_track_ids = <<2, 1>>

C9_FramesSeenMonotone ==
    [][/\ DOMAIN track_frames_count \subseteq DOMAIN track_frames_count'
       /\ \A tid \in TrackIdSet :
             /\ Get(track_frames_count', tid, 0) >= Get(track_frames_count, tid, 0)
             /\ EngineStep =>
                   Get(track_frames_count', tid, 0) =
                       Get(track_frames_count, tid, 0) + (IF tid \in SeenNow THEN 1 ELSE 0)]_vars

\* a track counted before was reported with lost > 0 and kept its count
C9_Witness ==
    \E n \in DOMAIN call.tracks :
        /\ call.tracks[n].lost > 0
        /\ Get(track_frames_count, call.tracks[n].id, 0) >= 1

\* C10: a call in which the image write or the callback raises keeps its
\* frames_seen increments and its last_alert_ts refresh, and an id confirmed
\* in such a call is not confirmed again by an update made less than
\* cooldown_seconds after it.
C10_FailureKeepsState ==
    [][EngineStep =>
        /\ call'.raised # "none" =>
              /\ \A tid \in TrackIdSet :
                    Get(track_frames_count', tid, 0) =
                        Get(track_frames_count, tid, 0) + (IF tid \in SeenNow THEN 1 ELSE 0)
              /\ \A tid \in Range(call'.confirmed) :
                    Get(track_last_alert_ts', tid, -1) = call'.now_ts
        /\ \A tid \in undelivered :
              call'.now_ts - last_confirmed_at[tid] < cooldown_seconds
                  => tid \notin Range(call'.confirmed)]_vars

\* an id confirmed in a call that raised is shown again, seen, inside its
\* cooldown, and is not confirmed
C10_Witness ==
    \E n \in DOMAIN call.tracks :
        /\ call.tracks[n].id \in undelivered
        /\ call.tracks[n].lost = 0
        /\ call.tracks[n].id \notin Range(call.confirmed)
        /\ call.now_ts - track_last_alert_ts[call.tracks[n].id] < cooldown_seconds
        /\ call.now_ts >= track_last_alert_ts[call.tracks[n].id]

\* C11: in an endless run in which the clock keeps advancing and track 1 is
\* seen in every update, track 1 is confirmed again and again, and an update
\* leaves it unconfirmed after its first alert only while the clock reads
\* less than cooldown_seconds after its last alert.
C11_RealertsForever ==
    /\ []<>(1 \in Range(call.confirmed))
    /\ []((1 \in DOMAIN last_confirmed_at /\ 1 \notin Range(call.confirmed))
            => call.now_ts - last_confirmed_at[1] < cooldown_seconds)

\* track 1 has been confirmed a second time, a cooldown after the first
C11_Witness ==
    /\ cooldown_seconds >= 1
    /\ 1 \in Range(call.confirmed)
    /\ Get(times_confirmed, 1, 0) >= 2
    /\ Get(track_frames_count, 1, 0) = FramesCap

\* C12: in the pipeline, no persistence record is ever removed, and the
\* record of an id that is not in the Track Table after the frame's tracker
\* update (deleted in it or before) keeps its frames_seen and last_alert_ts.
C12_RecordsOutliveTracks ==
    [][/\ DOMAIN track_frames_count \subseteq DOMAIN track_frames_count'
       /\ DOMAIN track_last_alert_ts \subseteq DOMAIN track_last_alert_ts'
       /\ \A tid \in DOMAIN track_frames_count \ DOMAIN tracks' :
             /\ track_frames_count'[tid] = track_frames_count[tid]
             /\ Get(track_last_alert_ts', tid, -1) = Get(track_last_alert_ts, tid, -1)]_vars

\* a track that was counted and alerted has been deleted from the Track
\* Table and its record is still there
C12_Witness ==
    \E tid \in DOMAIN track_last_alert_ts :
        /\ tid \notin DOMAIN tracks
        /\ track_frames_count[tid] >= 1
        /\ updates >= 2

\* a tracker update is being made
TrackerStep == tracker_vars' # tracker_vars

\* C13: an update of an empty Track Table with no detections returns an
\* empty list, creates no track and leaves next_id as it was; an update of an
\* empty table with detections gives them the ids next_id, next_id + 1, ...
C13_EmptyUpdateKeepsCounter ==
    [][(TrackerStep /\ DOMAIN tracks = {}) =>
        IF given' = <<>>
        THEN /\ outputs' = <<>>
             /\ DOMAIN tracks' = {}
             /\ next_id' = next_id
             /\ issued' = issued
        ELSE /\ Len(outputs') = Len(given')
             /\ \A n \in DOMAIN outputs' : outputs'[n].id = next_id + n - 1]_vars

\* updates have been made (feed is no longer fresh) and no id was ever
\* issued: each of them got no detections on the empty table
C13_Witness ==
    /\ feed = <<"mixed">>
    /\ given = <<>>
    /\ issued = <<>>
    /\ outputs = <<>>
    /\ next_id = 1

\* the track built from detection det: its fields, lost = 0
TrackOf(det) == Track(0, det.bbox, det.score, det.class_name)

\* the table holds one track and the update being made is given two
\* detections that overlap it equally
TiedOnSingleTrack ==
    /\ TrackerStep
    /\ Cardinality(DOMAIN tracks) = 1
    /\ Len(given') = 2
    /\ \A tid \in DOMAIN tracks :
          /\ ~IouLess(compute_iou(tracks[tid].bbox, given'[1].bbox),
                      compute_iou(tracks[tid].bbox, given'[2].bbox))
          /\ ~IouLess(compute_iou(tracks[tid].bbox, given'[2].bbox),
                      compute_iou(tracks[tid].bbox, given'[1].bbox))

\* the first detection updated the track and the second one got a new track
\* with the next id
FirstOfTwoMatched ==
    \A tid \in DOMAIN tracks :
        /\ DOMAIN tracks' = {tid, next_id}
        /\ next_id' = next_id + 1
        /\ tracks'[tid] = TrackOf(given'[1])
        /\ tracks'[next_id] = TrackOf(given'[2])
        /\ matched' = {tid}

\* C14 as stated: two detections that overlap a single track equally: one
\* of them, always the first of the list, updates the track and the other one
\* creates a new track.
C14_TieMatchesOne == [][TiedOnSingleTrack => FirstOfTwoMatched]_vars

\* C14, amended: the same when the common overlap is not below
\* iou_threshold; when it is below, the track is not updated and both
\* detections create new tracks.
C14_TieAtOrAboveThreshold ==
    [][TiedOnSingleTrack =>
        \A tid \in DOMAIN tracks :
            IF BelowThreshold(compute_iou(tracks[tid].bbox, given'[1].bbox), iou_threshold)
            THEN /\ matched' = {}
                 /\ next_id' = next_id + 2
                 /\ tracks'[next_id] = TrackOf(given'[1])
                 /\ tracks'[next_id + 1] = TrackOf(given'[2])
            ELSE FirstOfTwoMatched]_vars

\* the same detection was given twice to a table of one track: the track
\* was updated and one new track created
C14_Witness ==
    /\ updates = 2
    /\ Len(given) = 2
    /\ given[1] = given[2]
    /\ issued = <<1, 2>>
    /\ matched = {1}
    /\ tracks[1] = TrackOf(given[1])
    /\ tracks[2] = TrackOf(given[2])

\* v = p/q exactly.  An overlap above zero is inter / (union + 1e-6) with
\* whole inter and union, which is no fraction of the model's thresholds.
EqualsThreshold(v, thr) == v[1] <= 0 /\ v[1] * thr[2] = thr[1]

NotBelow(v) == ~BelowThreshold(v, iou_threshold)

StrictlyAbove(v) == ~BelowThreshold(v, iou_threshold) /\ ~EqualsThreshold(v, iou_threshold)

\* Every track the update being made has matched holds the data of a
\* detection d of the list whose overlap with the track's old bbox is not
\* below the threshold (strictly above it, when strict), and every other
\* surviving track keeps its data and counts one more lost frame.
AssignedOnlyIf(strict) ==
    /\ \A tid \in matched' :
          /\ tid \in DOMAIN tracks
          /\ \E j \in DOMAIN given' :
                /\ tracks'[tid] = TrackOf(given'[j])
                /\ IF strict
                   THEN StrictlyAbove(compute_iou(tracks[tid].bbox, given'[j].bbox))
                   ELSE NotBelow(compute_iou(tracks[tid].bbox, given'[j].bbox))
    /\ \A tid \in (DOMAIN tracks \cap DOMAIN tracks') \ matched' :
          tracks'[tid] = [tracks[tid] EXCEPT !.lost = @ + 1]

\* C15: every track an update assigns a detection to overlapped that
\* detection, by its bbox before the update, by at least iou_threshold; the
\* other tracks keep their data and only count one more lost frame.
C15_NoMatchBelowThreshold == [][TrackerStep => AssignedOnlyIf(FALSE)]_vars

\* with the default threshold, one detection updated track 1 and another one,
\* disjoint from every other box, got a new track instead of a match
C15_Witness ==
    /\ iou_threshold = <<3, 10>>
    /\ updates = 2
    /\ issued = <<1, 2>>
    /\ matched = {1}
    /\ Len(given) = 2
    /\ tracks[2].bbox = BoxD
    /\ tracks[1].bbox # BoxD

\* C16: as the class documentation says ("IoU > threshold"), every track an
\* update assigns a detection to overlapped it by strictly more than
\* iou_threshold.
C16_MatchOnlyStrictlyAbove == [][TrackerStep => AssignedOnlyIf(TRUE)]_vars

\* C17: as the class documentation says ("tồn tại liên tục >= min_frames
\* frame"), a track is confirmed only when it was reported with lost = 0 in
\* the latest min_frames calls in a row.
C17_ConfirmedOnlyAfterStreak ==
    \A tid \in Range(call.confirmed) : Get(streak, tid, 0) >= min_frames

\* C18: after a call of FireEventManager.update that raised, the frame loop
\* of main goes on to the next frame (as long as there are frames).
C18_LoopSurvivesError ==
    (call.raised # "none" /\ updates < MaxUpdates) => ENABLED MainNext

----------------------------------------------------------------------------
(* Properties of compute_iou *)

\* C19: compute_iou(a, b) = compute_iou(b, a) for all boxes of the grid.
C19_IouSymmetric ==
    iou_call.made => compute_iou(iou_call.boxB, iou_call.boxA) = iou_call.result

\* two different boxes that overlap, neither inside the other
C19_Witness ==
    /\ iou_call.made
    /\ iou_call.result[1] > 0
    /\ iou_call.boxA[3] - iou_call.boxA[1] > iou_call.boxB[3] - iou_call.boxB[1]
    /\ iou_call.boxA[4] - iou_call.boxA[2] < iou_call.boxB[4] - iou_call.boxB[2]

\* xB - xA and yB - yA of compute_iou, before "max(0, ...)"
InterWidth(a, b) == Min2(a[3], b[3]) - Max2(a[1], b[1])
InterHeight(a, b) == Min2(a[4], b[4]) - Max2(a[2], b[2])

\* C20: for all boxes of the grid, degenerate and inverted ones included,
\* compute_iou returns a value in [0,1] (0.0, or inter / (union + 1e-6) with
\* 0 < inter <= union), and 0.0 whenever the intersection width or height is
\* not positive.
C20_IouInUnitRange ==
    iou_call.made =>
        /\ \/ iou_call.result = Zero
           \/ 0 < iou_call.result[1] /\ iou_call.result[1] <= iou_call.result[2]
        /\ (\/ InterWidth(iou_call.boxA, iou_call.boxB) <= 0
            \/ InterHeight(iou_call.boxA, iou_call.boxB) <= 0)
               => iou_call.result = Zero

\* an inverted box against a valid box that spans it: both the width and
\* the height of the intersection come out negative, and the result is 0.0
C20_Witness ==
    /\ iou_call.made
    /\ iou_call.boxA[1] > iou_call.boxA[3]
    /\ iou_call.boxA[2] > iou_call.boxA[4]
    /\ InterWidth(iou_call.boxA, iou_call.boxB) < 0
    /\ InterHeight(iou_call.boxA, iou_call.boxB) < 0
    /\ iou_call.result = Zero

----------------------------------------------------------------------------
\* C21: within one IoUTracker.update call the assignment is one-to-one: no
\* track is updated from two detections and no detection updates two tracks,
\* and the tracks updated are exactly those of the assigned pairs.
C21_AssignmentOneToOne ==
    loop.state = "done" =>
        /\ \A a, b \in DOMAIN loop.pairs :
                a # b => /\ loop.pairs[a][1] # loop.pairs[b][1]
                         /\ loop.pairs[a][2] # loop.pairs[b][2]
        /\ Cardinality(matched) = Len(loop.pairs)

\* a call that assigned a pair and then met an entry whose track or detection
\* was already used
C21_Witness ==
    /\ loop.state = "done"
    /\ Len(loop.pairs) >= 1
    /\ loop.iterations > Len(loop.pairs) + 1

----------------------------------------------------------------------------
\* The last call entered the loop; the track and detection indices used
\* before its k-th assignment.
LoopRan == loop.state = "done" /\ loop.matrix # <<>>

TracksUsedBefore(k) == {loop.pairs[m][1] : m \in 1..(k - 1)}

DetsUsedBefore(k) == {loop.pairs[m][2] : m \in 1..(k - 1)}

FreeBefore(k, idx) == idx[1] \notin TracksUsedBefore(k) /\ idx[2] \notin DetsUsedBefore(k)

\* C22: the greedy loop assigns pairs in non-increasing order of overlap: when
\* a pair is assigned, no pair of a track and a detection both still unused
\* at that moment has a strictly greater overlap.
C22_AssignedInOverlapOrder ==
    LoopRan =>
        \A k \in DOMAIN loop.pairs : \A idx \in DOMAIN loop.matrix :
            FreeBefore(k, idx) => ~IouLess(loop.matrix[loop.pairs[k]], loop.matrix[idx])

\* two pairs were assigned and the first is not the first entry of the matrix:
\* track 2 took detection 1 before track 1 took detection 2
C22_Witness ==
    /\ loop.state = "done"
    /\ loop.pairs = << <<2, 1>>, <<1, 2>> >>

----------------------------------------------------------------------------
\* C23: the greedy matching is maximal: when the call returns, no track of the
\* table left unmatched and detection left unmatched overlap at or above
\* iou_threshold, and exactly the unmatched detections got new tracks.
NoneLeftToMatch ==
    \A idx \in DOMAIN loop.matrix :
        FreeBefore(Len(loop.pairs) + 1, idx) => BelowThreshold(loop.matrix[idx], iou_threshold)

----------------------------------------------------------------------------
\* positions of the returned list whose track has lost = 0
SeenInOutputs == {n \in DOMAIN outputs : outputs[n].lost = 0}

Carries(out, det) ==
    out.bbox = det.bbox /\ out.score = det.score /\ out.class_name = det.class_name

\* C24: after every IoUTracker.update the returned tracks with lost = 0 are in
\* one-to-one correspondence with the detections given: every detection is
\* carried (bbox, score, class_name) by a returned track of its own, and there
\* are as many lost = 0 tracks as detections.
C24_SeenTracksMirrorDetections ==
    /\ Cardinality(SeenInOutputs) = Len(given)
    /\ \E f \in [DOMAIN given -> SeenInOutputs] :
            /\ \A a, b \in DOMAIN given : a # b => f[a] # f[b]
            /\ \A j \in DOMAIN given : Carries(outputs[f[j]], given[j])

\* a call with two detections: one moved a track to a new box, the other got
\* a new track, and a third track is returned with lost > 0
C24_Witness ==
    /\ loop.state = "done"
    /\ Len(loop.pairs) = 1
    /\ Len(given) = 2
    /\ Len(outputs) = 3
    /\ Cardinality(SeenInOutputs) = 2

----------------------------------------------------------------------------
\* the entry of the returned list for track tid
ReturnedFor(tid) == {outputs'[n] : n \in {m \in DOMAIN outputs' : outputs'[m].id = tid}}

\* C25: a track of the table that a call does not match has lost raised by
\* exactly 1 and keeps its id, bbox, score and class_name, with an empty and
\* with a non-empty detection list; it leaves the table in that call only if
\* the raised lost exceeds max_lost.
C25_UnmatchedOnlyAges ==
    [][TrackerStep =>
        \A tid \in DOMAIN tracks \ matched' :
            IF tid \in DOMAIN tracks'
            THEN /\ tracks'[tid] = [tracks[tid] EXCEPT !.lost = @ + 1]
                 /\ ReturnedFor(tid) = {[id |-> tid, bbox |-> tracks[tid].bbox,
                                         score |-> tracks[tid].score,
                                         class_name |-> tracks[tid].class_name,
                                         lost |-> tracks[tid].lost + 1]}
            ELSE tracks[tid].lost + 1 > max_lost]_vars

\* a call with detections that left a track unmatched: it is returned with
\* lost = 1 next to the tracks of the detections
C25_Witness ==
    /\ Len(given) >= 1
    /\ \E n \in DOMAIN outputs : outputs[n].lost = 1 /\ outputs[n].id \notin matched
    /\ \E n \in DOMAIN outputs : outputs[n].lost = 0

----------------------------------------------------------------------------
\* C26: IoUTracker.update terminates for every table, detection list and
\* iou_threshold: the loop makes at most one pass for each matrix entry plus
\* the pass that stops it.
C26_GreedyLoopBounded ==
    loop.state = "running" =>
        loop.g.iterations <= Len(loop.track_ids) * Len(loop.detections) + 1

----------------------------------------------------------------------------
\* C27: when saving the event image raises in a call with confirmed tracks,
\* the callback is not invoked in that call and the exception leaves update;
\* when the callback raises, its exception leaves update too.
C27_FailuresReachCaller ==
    /\ call.fault = "save" =>
            /\ call.confirmed # <<>>
            /\ call.callbacks = <<>>
            /\ call.raised = "save"
    /\ call.fault = "callback" =>
            /\ call.saved
            /\ Len(call.callbacks) = 1
            /\ call.raised = "callback"

\* a call that confirmed a track and whose image could not be saved
C27_Witness ==
    /\ call.fault = "save"
    /\ Len(call.confirmed) >= 1
    /\ Len(call.tracks) = 2

----------------------------------------------------------------------------
\* the record of tid in a dict is the same before and after the step
SameRecord(before, after, tid) ==
    /\ tid \in DOMAIN after <=> tid \in DOMAIN before
    /\ tid \in DOMAIN after => after[tid] = before[tid]

\* C28: FireEventManager.update changes the records only of ids of its tracks
\* argument, and last_alert_ts only of the ids it confirms; it leaves the
\* Track Table and the id counter alone.  IoUTracker.update changes no
\* frames_seen and no last_alert_ts.
C28_EachOwnsItsState ==
    [][/\ EngineStep =>
            /\ \A tid \in (DOMAIN track_frames_count' \cup DOMAIN track_frames_count)
                           \ IdsOf(call'.tracks) :
                    SameRecord(track_frames_count, track_frames_count', tid)
            /\ \A tid \in (DOMAIN track_last_alert_ts' \cup DOMAIN track_last_alert_ts)
                           \ Range(call'.confirmed) :
                    SameRecord(track_last_alert_ts, track_last_alert_ts', tid)
            /\ Range(call'.confirmed) \subseteq IdsOf(call'.tracks)
            /\ tracks' = tracks /\ next_id' = next_id
       /\ TrackerStep =>
            /\ track_frames_count' = track_frames_count
            /\ track_last_alert_ts' = track_last_alert_ts]_vars

\* an update confirmed a track while the engine holds, untouched, the alert
\* time of another id that is not in the list
C28_Witness ==
    /\ call.confirmed # <<>>
    /\ \E tid \in DOMAIN track_last_alert_ts :
            /\ tid \notin IdsOf(call.tracks)
            /\ track_last_alert_ts[tid] < call.now_ts

----------------------------------------------------------------------------
\* the n-th track of the call being made is reported with lost > 0, has
\* frames_seen >= min_frames from earlier calls and its cooldown has elapsed
LostButDue(n) ==
    /\ call'.tracks[n].lost > 0
    /\ Get(track_frames_count, call'.tracks[n].id, 0) >= min_frames
    /\ call'.now_ts - Get(track_last_alert_ts, call'.tracks[n].id, 0) >= cooldown_seconds

\* the call being made confirms tid without counting a frame for it
ConfirmedUncounted(tid) ==
    /\ tid \in Range(call'.confirmed)
    /\ Get(track_frames_count', tid, 0) = Get(track_frames_count, tid, 0)

\* the callback of the call being made was invoked, once, with tid among the
\* confirmed ids
CallbackNames(tid) ==
    /\ Len(call'.callbacks) = 1
    /\ tid \in Range(call'.callbacks[1].confirmed_track_ids)

----------------------------------------------------------------------------
\* two entries hold the same overlap
Tied(a, b) == ~IouLess(a, b) /\ ~IouLess(b, a)

\* C30: among the entries that tie for the maximum, the loop takes the first
\* in row-major order: whenever a pair is assigned, every other entry of a
\* still unused track and detection with the same overlap comes after it,
\* that is, has a later track (higher id) or the same track and a detection
\* further down the list.
C30_TiesTakenRowMajor ==
    LoopRan =>
        \A k \in DOMAIN loop.pairs : \A idx \in DOMAIN loop.matrix :
            (/\ idx # loop.pairs[k]
             /\ FreeBefore(k, idx)
             /\ Tied(loop.matrix[idx], loop.matrix[loop.pairs[k]]))
                => RowMajorBefore(loop.pairs[k], idx)

\* the first pair assigned tied with an entry of another track and with an
\* entry of another detection
C30_Witness ==
    /\ loop.state = "done"
    /\ loop.pairs # <<>>
    /\ \E idx \in DOMAIN loop.matrix :
            /\ idx[1] # loop.pairs[1][1]
            /\ loop.matrix[idx] = loop.matrix[loop.pairs[1]]
    /\ \E idx \in DOMAIN loop.matrix :
            /\ idx[1] = loop.pairs[1][1]
            /\ idx[2] # loop.pairs[1][2]
            /\ loop.matrix[idx] = loop.matrix[loop.pairs[1]]

----------------------------------------------------------------------------
\* C31: for an enabled TelegramNotifier the event loop is there when the
\* constructor has returned, however the constructing thread and the loop
\* thread interleave: no send_fire_alert call finds the loop missing.
C31_LoopReadyAtReturn ==
    /\ (ctor = "returned" /\ enabled) => event_loop # "None"
    /\ \A n \in DOMAIN sent_log : sent_log[n] # "loop_missing"
====
